---------------------------- MODULE Spec2Model ----------------------------
(***************************************************************************)
(* Model of the pefcl server services                                      *)
(*   TransactionService  (server/services/transaction/transaction.service) *)
(*   CashService         (server/services/cash/cash.service)               *)
(*                                                                         *)
(* Three specifications share the module:                                  *)
(*   Spec         handleTransfer (internal and external path), one step    *)
(*                per database call (the awaits of the handler)            *)
(*   CashSpec     handleTakeCash / handleGiveCash, two requests in flight  *)
(*   HistorySpec  handleGetHistory over the rows of the 7 day window       *)
(***************************************************************************)
EXTENDS Integers, Sequences, FiniteSets, TLC

VARIABLES
    \* ---- database (accounts table, transactions table)
    balance,        \* accounts.balance, per account id
    ledger,         \* rows of the transactions table, in insertion order
    \* ---- the handleTransfer call in flight
    pc,             \* position of the call (the await it is suspended at)
    req,            \* Request<Transfer>: source + data
    identifier,     \* user.getIdentifier()
    myAccount,      \* const myAccount
    sharedAccount,  \* const sharedAccount
    fromAccount,    \* const fromAccount (internal path)
    toAccount,      \* const toAccount
    t,              \* state of the sequelize transaction t
    err,            \* error the call threw
    thrownAt,       \* position the error was thrown at
    before,         \* balances when the call started
    ledgerBefore,   \* ledger when the call started
    ncalls,         \* number of calls started
    \* ---- cash service
    useFrameworkIntegration,  \* config.general.useFrameworkIntegration
    cashRow,        \* cash table: amount per identifier
    cash0,          \* cash table at start
    cpc,            \* position of each cash request
    creq,           \* op, source, amount of each cash request
    cinst,          \* const cash (the CashModel instance) of each request
    cret,           \* what each request returned
    cexport,        \* the call each request made on the integration exports
    cstale,         \* the instance was stale when the request wrote
    cashQueries,    \* number of statements sent to the cash table
    cstarted,       \* number of cash requests started
    cashLog,        \* requests that ran to completion
    \* ---- history
    transactions,   \* result of getAllTransactionsFromAccounts
    history         \* response of handleGetHistory

transferVars == <<balance, ledger, pc, req, identifier, myAccount, sharedAccount,
                  fromAccount, toAccount, t, err, thrownAt, before, ledgerBefore,
                  ncalls>>
cashVars == <<useFrameworkIntegration, cashRow, cash0, cpc, creq, cinst, cret,
              cexport, cstale, cashQueries, cstarted, cashLog>>
historyVars == <<transactions, history>>
vars == <<transferVars, cashVars, historyVars>>

---------------------------------------------------------------------------
(* Bounds of the model *)

MaxAmount == 2
MaxCalls == 1
InitialBalance == 1

(* Test population: what the stores hold *)

Accounts == {1, 2, 3}
AccountIds == {1, 2, 3, 4}            \* 4: no such account
Sessions == {1, 2, 3}                 \* 3: no user behind the session
Identifiers == {"alice", "bob"}
Amounts == 1 .. MaxAmount
Messages == {"rent", "gift"}

NoUser == "none"

\* TransferType
Internal == "Internal"
External == "External"

\* TransactionType
TypeTransfer == "Transfer"
TypeIncoming == "Incoming"
TypeOutgoing == "Outgoing"

\* AccountRole
RoleOwner == "owner"
RoleAdmin == "admin"
RoleContributor == "contributor"
RoleNone == "none"

\* An account instance (or null) held by the handler
NullAccount == [id |-> 0, via |-> "null"]
Instance(id, via) == [id |-> id, via |-> via]

\* accounts.ownerIdentifier
OwnerOf(a) == IF a = 1 THEN "alice" ELSE IF a = 2 THEN "bob" ELSE "carol"

\* shared_accounts: role of an identifier on an account
SharedRole(a, i) ==
    IF a = 1 /\ i = "bob" THEN RoleOwner
    ELSE IF a = 2 /\ i = "bob" THEN RoleOwner
    ELSE IF a = 2 /\ i = "alice" THEN RoleAdmin
    ELSE IF a = 3 /\ i = "alice" THEN RoleContributor
    ELSE RoleNone

\* UserService.getUser(source).getIdentifier(); NoUser: the call throws
getUser(source) ==
    IF source = 1 THEN "alice" ELSE IF source = 2 THEN "bob" ELSE NoUser

\* AccountDB.getAccount(id)
getAccount(id) ==
    IF id \in Accounts THEN Instance(id, "account") ELSE NullAccount

\* AccountDB.getAuthorizedAccountById(id, identifier)
getAuthorizedAccountById(id, i) ==
    IF id \in Accounts /\ OwnerOf(id) = i THEN Instance(id, "own") ELSE NullAccount

\* AccountDB.getAuthorizedSharedAccountById(id, identifier, roles)
getAuthorizedSharedAccountById(id, i, roles) ==
    IF id \in Accounts /\ SharedRole(id, i) \in roles
    THEN Instance(id, "shared") ELSE NullAccount

\* ExternalAccountService.getAccountFromExternalAccount(id)
getAccountFromExternalAccount(id) ==
    IF id = 1 THEN Instance(2, "external")
    ELSE IF id = 2 THEN Instance(1, "external")
    ELSE IF id = 3 THEN Instance(3, "external")
    ELSE NullAccount

---------------------------------------------------------------------------
(* handleInternalTransfer / handleExternalTransfer, the pure parts *)

TransferRolesWithContributor == {RoleAdmin, RoleOwner, RoleContributor}
\* line 97: [AccountRole.Admin, AccountRole.Owner]
TransferRoles == {RoleAdmin, RoleOwner}

\* line 100: myAccount ?? sharedAccount
FromAccountOf(my, shared) == IF my # NullAccount THEN my ELSE shared

MissingBoth(to, from) == to = NullAccount /\ from = NullAccount
\* lines 103 / 134: !toAccount || !fromAccount
Missing(to, from) == to = NullAccount \/ from = NullAccount

\* instance.increment('balance', { by }): UPDATE .. SET balance = balance + by
Increment(bal, a, by) == [bal EXCEPT ![a] = @ + by]

DecrementAsIncrement(bal, a, by) == [bal EXCEPT ![a] = @ + by]
\* instance.decrement('balance', { by }): UPDATE .. SET balance = balance - by
Decrement(bal, a, by) == [bal EXCEPT ![a] = @ - by]

\* toJSON() of an account instance: the snapshot stored in a ledger row
Snapshot(inst) == inst.id

Row(type, amount, message, from, to) ==
    [type |-> type, amount |-> amount, message |-> message,
     fromAccount |-> Snapshot(from), toAccount |-> Snapshot(to)]

\* lines 109-115
TransferRow(r, from, to) == Row(TypeTransfer, r.amount, r.message, from, to)

\* lines 146-156
OutgoingRow(r, from, to) == Row(TypeOutgoing, r.amount, r.message, from, to)

IncomingRowReversed(r, from, to) == Row(TypeIncoming, r.amount, r.message, to, from)
\* lines 146-151, 158-161: the same data as the Outgoing row
IncomingRow(r, from, to) == Row(TypeIncoming, r.amount, r.message, from, to)

\* No statement of the handlers carries { transaction: t } (lines 93-115,
\* 129-161) and t is an unmanaged transaction, so no statement runs on t.
StatementsOnT == FALSE

\* t.rollback(): undoes the statements that ran on t
Rollback(now, atBegin) == IF StatementsOnT THEN atBegin ELSE now

\* lines 119 / 165
CatchEnds == "rolledback"

Requests ==
    [source : Sessions, type : {Internal, External}, fromAccountId : AccountIds,
     toAccountId : AccountIds, amount : Amounts, message : Messages]

NoRequest ==
    [source |-> 0, type |-> "none", fromAccountId |-> 0,
     toAccountId |-> 0, amount |-> 0, message |-> ""]

---------------------------------------------------------------------------
(* Spec: handleTransfer *)

TransferInit ==
    /\ balance = [a \in Accounts |-> InitialBalance]
    /\ ledger = <<>>
    /\ pc = "idle"
    /\ req = NoRequest
    /\ identifier = NoUser
    /\ myAccount = NullAccount
    /\ sharedAccount = NullAccount
    /\ fromAccount = NullAccount
    /\ toAccount = NullAccount
    /\ t = "none"
    /\ err = "none"
    /\ thrownAt = "none"
    /\ before = [a \in Accounts |-> InitialBalance]
    /\ ledgerBefore = <<>>
    /\ ncalls = 0

\* catch (e) { t.rollback(); ...; throw e; }   lines 118-123 / 164-169
Catch(e) ==
    /\ t' = CatchEnds
    /\ balance' = Rollback(balance, before)
    /\ ledger' = Rollback(ledger, ledgerBefore)
    /\ err' = e
    /\ thrownAt' = pc
    /\ pc' = "thrown"

Locals == <<req, identifier, myAccount, sharedAccount, fromAccount, toAccount>>
Ghost == <<before, ledgerBefore, ncalls>>

\* handleTransfer, line 176-180, and line 87 / 127: const t = await sequelize.transaction()
Begin(r) ==
    /\ pc = "idle"
    /\ ncalls < MaxCalls
    /\ req' = r
    /\ t' = "open"
    /\ pc' = IF r.type = External THEN "e_getMy" ELSE "i_getUser"
    /\ before' = balance
    /\ ledgerBefore' = ledger
    /\ ncalls' = ncalls + 1
    /\ UNCHANGED <<balance, ledger, identifier, myAccount, sharedAccount,
                   fromAccount, toAccount, err, thrownAt>>
    /\ UNCHANGED <<cashVars, historyVars>>

\* lines 88-90, outside the try block
IntGetUser ==
    /\ pc = "i_getUser"
    /\ IF getUser(req.source) = NoUser
       THEN /\ pc' = "thrown"
            /\ err' = "UserNotFound"
            /\ thrownAt' = pc
            /\ UNCHANGED identifier
       ELSE /\ identifier' = getUser(req.source)
            /\ pc' = "i_getMy"
            /\ UNCHANGED <<err, thrownAt>>
    /\ UNCHANGED <<balance, ledger, req, myAccount, sharedAccount, fromAccount,
                   toAccount, t, before, ledgerBefore, ncalls>>
    /\ UNCHANGED <<cashVars, historyVars>>

\* line 93
IntGetMyAccount(fail) ==
    /\ pc = "i_getMy"
    /\ IF fail
       THEN Catch("DbError") /\ UNCHANGED myAccount
       ELSE /\ myAccount' = getAuthorizedAccountById(req.fromAccountId, identifier)
            /\ pc' = "i_getShared"
            /\ UNCHANGED <<balance, ledger, t, err, thrownAt>>
    /\ UNCHANGED <<req, identifier, sharedAccount, fromAccount, toAccount, Ghost>>
    /\ UNCHANGED <<cashVars, historyVars>>

\* lines 94-98
IntGetSharedAccount(fail) ==
    /\ pc = "i_getShared"
    /\ IF fail
       THEN Catch("DbError") /\ UNCHANGED sharedAccount
       ELSE /\ sharedAccount' = getAuthorizedSharedAccountById(
                                    req.fromAccountId, identifier, TransferRoles)
            /\ pc' = "i_getTo"
            /\ UNCHANGED <<balance, ledger, t, err, thrownAt>>
    /\ UNCHANGED <<req, identifier, myAccount, fromAccount, toAccount, Ghost>>
    /\ UNCHANGED <<cashVars, historyVars>>

\* lines 100-105
IntGetToAccount(fail) ==
    /\ pc = "i_getTo"
    /\ IF fail
       THEN Catch("DbError") /\ UNCHANGED <<fromAccount, toAccount>>
       ELSE /\ fromAccount' = FromAccountOf(myAccount, sharedAccount)
            /\ toAccount' = getAccount(req.toAccountId)
            /\ IF Missing(toAccount', fromAccount')
               THEN Catch("NotFound")
               ELSE /\ pc' = "i_credit"
                    /\ UNCHANGED <<balance, ledger, t, err, thrownAt>>
    /\ UNCHANGED <<req, identifier, myAccount, sharedAccount, Ghost>>
    /\ UNCHANGED <<cashVars, historyVars>>

\* line 107
IntCredit(fail) ==
    /\ pc = "i_credit"
    /\ IF toAccount = NullAccount THEN Catch("TypeError")
       ELSE IF fail THEN Catch("DbError")
       ELSE /\ balance' = Increment(balance, toAccount.id, req.amount)
            /\ pc' = "i_debit"
            /\ UNCHANGED <<ledger, t, err, thrownAt>>
    /\ UNCHANGED <<Locals, Ghost>>
    /\ UNCHANGED <<cashVars, historyVars>>

\* line 108
IntDebit(fail) ==
    /\ pc = "i_debit"
    /\ IF fromAccount = NullAccount THEN Catch("TypeError")
       ELSE IF fail THEN Catch("DbError")
       ELSE /\ balance' = Decrement(balance, fromAccount.id, req.amount)
            /\ pc' = "i_create"
            /\ UNCHANGED <<ledger, t, err, thrownAt>>
    /\ UNCHANGED <<Locals, Ghost>>
    /\ UNCHANGED <<cashVars, historyVars>>

\* lines 109-117
IntCreate(fail) ==
    /\ pc = "i_create"
    /\ IF fail THEN Catch("DbError")
       ELSE /\ ledger' = Append(ledger, TransferRow(req, fromAccount, toAccount))
            /\ t' = "committed"
            /\ pc' = "done"
            /\ UNCHANGED <<balance, err, thrownAt>>
    /\ UNCHANGED <<Locals, Ghost>>
    /\ UNCHANGED <<cashVars, historyVars>>

\* line 129
ExtGetMyAccount(fail) ==
    /\ pc = "e_getMy"
    /\ IF fail
       THEN Catch("DbError") /\ UNCHANGED myAccount
       ELSE /\ myAccount' = getAccount(req.fromAccountId)
            /\ pc' = "e_getTo"
            /\ UNCHANGED <<balance, ledger, t, err, thrownAt>>
    /\ UNCHANGED <<req, identifier, sharedAccount, fromAccount, toAccount, Ghost>>
    /\ UNCHANGED <<cashVars, historyVars>>

\* lines 130-136
ExtGetToAccount(fail) ==
    /\ pc = "e_getTo"
    /\ IF fail
       THEN Catch("DbError") /\ UNCHANGED toAccount
       ELSE /\ toAccount' = getAccountFromExternalAccount(req.toAccountId)
            /\ IF Missing(toAccount', myAccount)
               THEN Catch("NotFound")
               ELSE /\ pc' = "e_debit"
                    /\ UNCHANGED <<balance, ledger, t, err, thrownAt>>
    /\ UNCHANGED <<req, identifier, myAccount, sharedAccount, fromAccount, Ghost>>
    /\ UNCHANGED <<cashVars, historyVars>>

\* line 138
ExtDebit(fail) ==
    /\ pc = "e_debit"
    /\ IF myAccount = NullAccount THEN Catch("TypeError")
       ELSE IF fail THEN Catch("DbError")
       ELSE /\ balance' = Decrement(balance, myAccount.id, req.amount)
            /\ pc' = "e_credit"
            /\ UNCHANGED <<ledger, t, err, thrownAt>>
    /\ UNCHANGED <<Locals, Ghost>>
    /\ UNCHANGED <<cashVars, historyVars>>

\* line 139
ExtCredit(fail) ==
    /\ pc = "e_credit"
    /\ IF toAccount = NullAccount THEN Catch("TypeError")
       ELSE IF fail THEN Catch("DbError")
       ELSE /\ balance' = Increment(balance, toAccount.id, req.amount)
            /\ pc' = "e_outgoing"
            /\ UNCHANGED <<ledger, t, err, thrownAt>>
    /\ UNCHANGED <<Locals, Ghost>>
    /\ UNCHANGED <<cashVars, historyVars>>

\* lines 146-156
ExtCreateOutgoing(fail) ==
    /\ pc = "e_outgoing"
    /\ IF fail THEN Catch("DbError")
       ELSE /\ ledger' = Append(ledger, OutgoingRow(req, myAccount, toAccount))
            /\ pc' = "e_incoming"
            /\ UNCHANGED <<balance, t, err, thrownAt>>
    /\ UNCHANGED <<Locals, Ghost>>
    /\ UNCHANGED <<cashVars, historyVars>>

\* lines 158-163
ExtCreateIncoming(fail) ==
    /\ pc = "e_incoming"
    /\ IF fail THEN Catch("DbError")
       ELSE /\ ledger' = Append(ledger, IncomingRow(req, myAccount, toAccount))
            /\ t' = "committed"
            /\ pc' = "done"
            /\ UNCHANGED <<balance, err, thrownAt>>
    /\ UNCHANGED <<Locals, Ghost>>
    /\ UNCHANGED <<cashVars, historyVars>>

\* the call has returned or thrown to its caller; the handler keeps no state
Return ==
    /\ pc \in {"done", "thrown"}
    /\ pc' = "idle"
    /\ req' = NoRequest
    /\ identifier' = NoUser
    /\ myAccount' = NullAccount
    /\ sharedAccount' = NullAccount
    /\ fromAccount' = NullAccount
    /\ toAccount' = NullAccount
    /\ t' = "none"
    /\ err' = "none"
    /\ thrownAt' = "none"
    /\ UNCHANGED <<balance, ledger, Ghost>>
    /\ UNCHANGED <<cashVars, historyVars>>

TransferNext ==
    \/ \E r \in Requests : Begin(r)
    \/ IntGetUser
    \/ \E fail \in BOOLEAN : IntGetMyAccount(fail)
    \/ \E fail \in BOOLEAN : IntGetSharedAccount(fail)
    \/ \E fail \in BOOLEAN : IntGetToAccount(fail)
    \/ \E fail \in BOOLEAN : IntCredit(fail)
    \/ \E fail \in BOOLEAN : IntDebit(fail)
    \/ \E fail \in BOOLEAN : IntCreate(fail)
    \/ \E fail \in BOOLEAN : ExtGetMyAccount(fail)
    \/ \E fail \in BOOLEAN : ExtGetToAccount(fail)
    \/ \E fail \in BOOLEAN : ExtDebit(fail)
    \/ \E fail \in BOOLEAN : ExtCredit(fail)
    \/ \E fail \in BOOLEAN : ExtCreateOutgoing(fail)
    \/ \E fail \in BOOLEAN : ExtCreateIncoming(fail)
    \/ Return

---------------------------------------------------------------------------
(* CashService *)

MaxCashCalls == 2
InitialCash == 1

CashProcs == {1, 2}                   \* requests in flight at the same time
CashHolders == {"alice"}              \* identifiers with a row in the cash table

\* a CashModel instance (or null)
NullCash == [row |-> FALSE, amount |-> 0]
CashInstance(v) == [row |-> TRUE, amount |-> v]

NoExport == [name |-> "none", source |-> 0, amount |-> 0]
NoCashRequest == [op |-> "none", source |-> 0, amount |-> 0]
CashRequests == [op : {"take", "give"}, source : Sessions, amount : Amounts]

\* CashDB.getCashByIdentifier(identifier)
getCashByIdentifier(rows, i) ==
    IF i \in CashHolders THEN CashInstance(rows[i]) ELSE NullCash

\* lines 51 / 67: the export each handler calls
ExportOf(op) == IF op = "take" THEN "pefclDepositMoney" ELSE "pefclWithdrawMoney"

AfterFlagFallsThrough(flag) == "read"
\* lines 50-53 / 66-69: return null when the flag is set, else go on to line 55 / 71
AfterFlag(flag) == IF flag THEN "done" ELSE "read"

WriteFromInstance(stored, inst, op, amount) ==
    IF op = "take" THEN inst.amount - amount ELSE inst.amount + amount
\* lines 56 / 72: cash.decrement({ amount }) / cash.increment({ amount }), done in
\* the database: UPDATE .. SET amount = amount -/+ :amount
WriteCash(stored, inst, op, amount) ==
    IF op = "take" THEN stored - amount ELSE stored + amount

CashInit ==
    /\ useFrameworkIntegration \in BOOLEAN
    /\ cashRow = [i \in CashHolders |-> InitialCash]
    /\ cash0 = [i \in CashHolders |-> InitialCash]
    /\ cpc = [p \in CashProcs |-> "idle"]
    /\ creq = [p \in CashProcs |-> NoCashRequest]
    /\ cinst = [p \in CashProcs |-> NullCash]
    /\ cret = [p \in CashProcs |-> "none"]
    /\ cexport = [p \in CashProcs |-> NoExport]
    /\ cstale = [p \in CashProcs |-> FALSE]
    /\ cashQueries = 0
    /\ cstarted = 0
    /\ cashLog = <<>>

\* handleTakeCash lines 45-53, handleGiveCash lines 61-69
CashStart(p, r) ==
    /\ cpc[p] \in {"idle", "done", "thrown"}
    /\ cstarted < MaxCashCalls
    /\ cstarted' = cstarted + 1
    /\ creq' = [creq EXCEPT ![p] = r]
    /\ cinst' = [cinst EXCEPT ![p] = NullCash]
    /\ cstale' = [cstale EXCEPT ![p] = FALSE]
    /\ IF getUser(r.source) = NoUser
       THEN /\ cpc' = [cpc EXCEPT ![p] = "thrown"]
            /\ cret' = [cret EXCEPT ![p] = "none"]
            /\ cexport' = [cexport EXCEPT ![p] = NoExport]
       ELSE /\ cpc' = [cpc EXCEPT ![p] = AfterFlag(useFrameworkIntegration)]
            /\ cret' = [cret EXCEPT ![p] =
                          IF cpc'[p] = "done" THEN "null" ELSE "none"]
            /\ cexport' = [cexport EXCEPT ![p] =
                          IF useFrameworkIntegration
                          THEN [name |-> ExportOf(r.op), source |-> r.source,
                                amount |-> r.amount]
                          ELSE NoExport]
    /\ UNCHANGED <<useFrameworkIntegration, cashRow, cash0, cashQueries, cashLog>>
    /\ UNCHANGED <<transferVars, historyVars>>

\* lines 55 / 71: the SELECT runs
CashRead(p) ==
    /\ cpc[p] = "read"
    /\ cinst' = [cinst EXCEPT ![p] =
                    getCashByIdentifier(cashRow, getUser(creq[p].source))]
    /\ cashQueries' = cashQueries + 1
    /\ cpc' = [cpc EXCEPT ![p] = "write"]
    /\ UNCHANGED <<useFrameworkIntegration, cashRow, cash0, creq, cret, cexport,
                   cstale, cstarted, cashLog>>
    /\ UNCHANGED <<transferVars, historyVars>>

\* lines 56-58 / 72-74: the UPDATE runs (no statement for a null instance)
CashWrite(p) ==
    /\ cpc[p] = "write"
    /\ IF cinst[p].row
       THEN LET i == getUser(creq[p].source) IN
            /\ cashRow' = [cashRow EXCEPT ![i] =
                              WriteCash(@, cinst[p], creq[p].op, creq[p].amount)]
            /\ cstale' = [cstale EXCEPT ![p] = cashRow[i] # cinst[p].amount]
            /\ cashQueries' = cashQueries + 1
            /\ cashLog' = Append(cashLog, [op |-> creq[p].op, identifier |-> i,
                                           amount |-> creq[p].amount])
            /\ cret' = [cret EXCEPT ![p] = "row"]
       ELSE /\ cret' = [cret EXCEPT ![p] = "null"]
            /\ UNCHANGED <<cashRow, cstale, cashQueries, cashLog>>
    /\ cpc' = [cpc EXCEPT ![p] = "done"]
    /\ UNCHANGED <<useFrameworkIntegration, cash0, creq, cinst, cexport, cstarted>>
    /\ UNCHANGED <<transferVars, historyVars>>

CashNext ==
    \/ \E p \in CashProcs, r \in CashRequests : CashStart(p, r)
    \/ \E p \in CashProcs : CashRead(p)
    \/ \E p \in CashProcs : CashWrite(p)

---------------------------------------------------------------------------
(* handleGetHistory *)

MaxTransactions == 3
MaxStoredAmount == 2

Days == {"Mon", "Tue"}                \* toDateString() of createdAt
TransactionTypes == {TypeTransfer, TypeIncoming, TypeOutgoing}

StoredTransactions ==
    [type : TransactionTypes, amount : 0 .. MaxStoredAmount, createdAt : Days]

NoDay == [income |-> 0, expenses |-> 0]
NoHistory == [valid |-> FALSE, income |-> 0, expenses |-> 0, lastWeek |-> <<>>]

ExpensesStepAllTypes(prev, curr) == prev - curr.amount
\* lines 198-202
ExpensesStep(prev, curr) ==
    IF curr.type = TypeOutgoing THEN prev - curr.amount ELSE prev

\* lines 204-208
IncomeStep(prev, curr) ==
    IF curr.type = TypeIncoming THEN prev + curr.amount ELSE prev

\* lines 210-230
LastWeekStep(prev, curr) ==
    LET localeDate == curr.createdAt
        old == IF localeDate \in DOMAIN prev THEN prev[localeDate] ELSE NoDay
        newIncome == IF curr.type = TypeIncoming
                     THEN old.income + curr.amount ELSE old.income
        newExpenses == IF curr.type = TypeOutgoing
                       THEN old.expenses - curr.amount ELSE old.expenses
    IN  [d \in DOMAIN prev \cup {localeDate} |->
            IF d = localeDate
            THEN [income |-> newIncome, expenses |-> newExpenses]
            ELSE prev[d]]

\* transactions.reduce(step, 0), the first n rows
RECURSIVE ExpensesOf(_, _)
ExpensesOf(txs, n) ==
    IF n = 0 THEN 0 ELSE ExpensesStep(ExpensesOf(txs, n - 1), txs[n])

RECURSIVE IncomeOf(_, _)
IncomeOf(txs, n) ==
    IF n = 0 THEN 0 ELSE IncomeStep(IncomeOf(txs, n - 1), txs[n])

RECURSIVE LastWeekOf(_, _)
LastWeekOf(txs, n) ==
    IF n = 0 THEN <<>> ELSE LastWeekStep(LastWeekOf(txs, n - 1), txs[n])

\* lines 232-236
GetHistory(txs) ==
    [valid |-> TRUE,
     income |-> IncomeOf(txs, Len(txs)),
     expenses |-> ExpensesOf(txs, Len(txs)),
     lastWeek |-> LastWeekOf(txs, Len(txs))]

HistoryInit ==
    /\ transactions = <<>>
    /\ history = NoHistory

\* handleCreateTransaction (lines 183-187): a row enters the window
CreateTransaction(tx) ==
    /\ Len(transactions) < MaxTransactions
    /\ transactions' = Append(transactions, tx)
    /\ history' = NoHistory
    /\ UNCHANGED <<transferVars, cashVars>>

\* handleGetHistory (lines 189-237)
HandleGetHistory ==
    /\ history' = GetHistory(transactions)
    /\ UNCHANGED transactions
    /\ UNCHANGED <<transferVars, cashVars>>

HistoryNext ==
    \/ \E tx \in StoredTransactions : CreateTransaction(tx)
    \/ HandleGetHistory

---------------------------------------------------------------------------
(* The specifications *)

Init == TransferInit /\ CashInit /\ HistoryInit /\ useFrameworkIntegration = FALSE

Spec == Init /\ [][TransferNext]_vars

CashSpecInit == TransferInit /\ CashInit /\ HistoryInit

CashSpec == CashSpecInit /\ [][CashNext]_vars

HistorySpec == Init /\ [][HistoryNext]_vars

---------------------------------------------------------------------------
(* Properties *)

InternalDone == pc = "done" /\ req.type = Internal
ExternalDone == pc = "done" /\ req.type = External

\* what a transfer of amount from src to dst makes of the balance of account a
Moved(a, src, dst, amount) ==
    before[a] - (IF a = src THEN amount ELSE 0) + (IF a = dst THEN amount ELSE 0)

\* C1 (as amended): an internal transfer that completes adds exactly one Transfer
\* row with the request's amount and message that references both accounts; when
\* the two accounts differ the source balance is its old value minus amount and
\* the destination balance its old value plus amount, and when fromAccountId =
\* toAccountId the credit and the debit cancel and the balance is unchanged.
C1_InternalTransferEffect ==
    InternalDone =>
        /\ ledger = Append(ledgerBefore,
                [type |-> TypeTransfer, amount |-> req.amount,
                 message |-> req.message, fromAccount |-> req.fromAccountId,
                 toAccount |-> req.toAccountId])
        /\ \A a \in Accounts :
              balance[a] = Moved(a, req.fromAccountId, req.toAccountId, req.amount)

C1_Witness ==
    /\ InternalDone
    /\ req.fromAccountId # req.toAccountId
    /\ req.amount > 0
    /\ balance[req.fromAccountId] = before[req.fromAccountId] - req.amount

\* C1 (as claimed): also for fromAccountId = toAccountId the source balance is
\* its old value minus amount and the destination balance its old value plus amount.
C1_AsClaimed ==
    InternalDone =>
        /\ balance[req.fromAccountId] = before[req.fromAccountId] - req.amount
        /\ balance[req.toAccountId] = before[req.toAccountId] + req.amount
        /\ Len(ledger) = Len(ledgerBefore) + 1
        /\ ledger[Len(ledger)].type = TypeTransfer

InSequence ==
    thrownAt \in {"i_credit", "i_debit", "i_create",
                  "e_debit", "e_credit", "e_outgoing", "e_incoming"}

\* C2: a transfer that fails in its credit / debit / insert sequence leaves every
\* balance and the ledger as they were before the call.
C2_RollbackRestores ==
    pc = "thrown" /\ InSequence => balance = before /\ ledger = ledgerBefore

\* C3 (as amended): an external transfer that completes adds exactly two rows, an
\* Outgoing one and then an Incoming one, with the request's amount and message
\* and with the same fromAccount (the source) and toAccount (the destination)
\* in both rows; the source balance drops by amount and the destination balance
\* rises by amount, which cancel when the external account is the source itself.
C3_ExternalTransferEffect ==
    ExternalDone =>
        LET n == Len(ledgerBefore)
            out == ledger[n + 1]
            inc == ledger[n + 2]
        IN  /\ Len(ledger) = n + 2
            /\ SubSeq(ledger, 1, n) = ledgerBefore
            /\ out.type = TypeOutgoing /\ inc.type = TypeIncoming
            /\ out.amount = req.amount /\ inc.amount = req.amount
            /\ out.message = req.message /\ inc.message = req.message
            /\ out.fromAccount = req.fromAccountId
            /\ out.toAccount = toAccount.id
            /\ inc.fromAccount = out.fromAccount
            /\ inc.toAccount = out.toAccount
            /\ \A a \in Accounts :
                  balance[a] = Moved(a, req.fromAccountId, toAccount.id, req.amount)

C3_Witness ==
    /\ ExternalDone
    /\ req.fromAccountId # toAccount.id
    /\ req.amount > 0
    /\ Len(ledger) = Len(ledgerBefore) + 2

\* C3 (as claimed): the source balance drops by amount, the destination balance
\* rises by amount, and the Incoming row has the from / to snapshots of the
\* Outgoing row reversed.
C3_AsClaimed ==
    ExternalDone =>
        LET n == Len(ledgerBefore)
            out == ledger[n + 1]
            inc == ledger[n + 2]
        IN  /\ Len(ledger) = n + 2
            /\ out.type = TypeOutgoing /\ inc.type = TypeIncoming
            /\ out.amount = inc.amount /\ out.message = inc.message
            /\ inc.fromAccount = out.toAccount
            /\ inc.toAccount = out.fromAccount
            /\ balance[req.fromAccountId] = before[req.fromAccountId] - req.amount
            /\ balance[toAccount.id] = before[toAccount.id] + req.amount

SourceUnresolved ==
    IF req.type = Internal
    THEN /\ getAuthorizedAccountById(req.fromAccountId, getUser(req.source))
                = NullAccount
         /\ getAuthorizedSharedAccountById(req.fromAccountId, getUser(req.source),
                {RoleAdmin, RoleOwner}) = NullAccount
    ELSE getAccount(req.fromAccountId) = NullAccount

DestinationUnresolved ==
    IF req.type = Internal
    THEN getAccount(req.toAccountId) = NullAccount
    ELSE getAccountFromExternalAccount(req.toAccountId) = NullAccount

Ended == pc \in {"done", "thrown"}

\* C4: a transfer whose source or destination account does not resolve (and whose
\* lookups themselves do not fail) ends by throwing NotFound, with every balance
\* and the ledger unchanged and the transaction rolled back.
C4_NotFoundChangesNothing ==
    /\ Ended
    /\ SourceUnresolved \/ DestinationUnresolved
    /\ err \notin {"DbError", "UserNotFound"}
    => /\ pc = "thrown"
       /\ err = "NotFound"
       /\ balance = before
       /\ ledger = ledgerBefore
       /\ t = "rolledback"

C4_Witness ==
    /\ pc = "thrown"
    /\ err = "NotFound"
    /\ DestinationUnresolved
    /\ ~SourceUnresolved
    /\ req.amount > 0

\* C5 (as amended): with useFrameworkIntegration set, handleTakeCash calls the
\* export pefclDepositMoney(source, amount) and handleGiveCash calls the export
\* pefclWithdrawMoney(source, amount); both return null, and the cash table
\* is neither read nor changed.
C5_IntegrationDelegates ==
    \A p \in CashProcs :
        useFrameworkIntegration /\ cpc[p] = "done" =>
            /\ cret[p] = "null"
            /\ cexport[p] =
                  [name |-> IF creq[p].op = "take"
                            THEN "pefclDepositMoney" ELSE "pefclWithdrawMoney",
                   source |-> creq[p].source, amount |-> creq[p].amount]
            /\ cinst[p] = NullCash
            /\ cashQueries = 0
            /\ cashRow = cash0

C5_Witness ==
    /\ useFrameworkIntegration
    /\ \E p, q \in CashProcs :
          /\ cpc[p] = "done" /\ creq[p].op = "take" /\ creq[p].amount > 0
          /\ cpc[q] = "done" /\ creq[q].op = "give" /\ creq[q].amount > 0

\* C5 (as claimed): handleTakeCash delegates to the withdraw call and
\* handleGiveCash to the deposit call.
C5_AsClaimed ==
    \A p \in CashProcs :
        useFrameworkIntegration /\ cpc[p] = "done" =>
            /\ cret[p] = "null"
            /\ cexport[p].name =
                  IF creq[p].op = "take"
                  THEN "pefclWithdrawMoney" ELSE "pefclDepositMoney"

\* C6: no transfer makes a balance negative.
C6_BalanceNonNegative == \A a \in Accounts : balance[a] >= 0

RECURSIVE SumAmounts(_, _)
SumAmounts(txs, S) ==
    IF S = {} THEN 0
    ELSE LET k == CHOOSE k \in S : TRUE
         IN  txs[k].amount + SumAmounts(txs, S \ {k})

RowsOf(txs, type, days) ==
    {k \in 1 .. Len(txs) : txs[k].type = type /\ txs[k].createdAt \in days}

RECURSIVE SumDays(_, _, _)
SumDays(lastWeek, field, D) ==
    IF D = {} THEN 0
    ELSE LET d == CHOOSE d \in D : TRUE
         IN  lastWeek[d][field] + SumDays(lastWeek, field, D \ {d})

\* C7: the response of handleGetHistory has expenses = minus the sum of the
\* Outgoing amounts, income = the sum of the Incoming amounts, one lastWeek entry
\* per date that has a row, holding the same two sums over the rows of that date
\* (Transfer rows count in neither), and the entries add up to the totals.
C7_HistoryTotals ==
    history.valid =>
        LET txs == transactions
            lw == history.lastWeek
        IN  /\ history.expenses = 0 - SumAmounts(txs, RowsOf(txs, TypeOutgoing, Days))
            /\ history.income = SumAmounts(txs, RowsOf(txs, TypeIncoming, Days))
            /\ DOMAIN lw = {txs[k].createdAt : k \in 1 .. Len(txs)}
            /\ \A d \in DOMAIN lw :
                  /\ lw[d].income = SumAmounts(txs, RowsOf(txs, TypeIncoming, {d}))
                  /\ lw[d].expenses =
                        0 - SumAmounts(txs, RowsOf(txs, TypeOutgoing, {d}))
            /\ SumDays(lw, "income", DOMAIN lw) = history.income
            /\ SumDays(lw, "expenses", DOMAIN lw) = history.expenses

C7_Witness ==
    /\ history.valid
    /\ \E i, j, k \in 1 .. Len(transactions) :
          /\ transactions[i].type = TypeOutgoing /\ transactions[i].amount > 0
          /\ transactions[j].type = TypeIncoming /\ transactions[j].amount > 0
          /\ transactions[k].type = TypeTransfer /\ transactions[k].amount > 0
          /\ transactions[i].createdAt # transactions[j].createdAt
    /\ history.expenses < 0
    /\ history.income > 0

\* the caller owns the account or holds Admin or Owner on it
Authorized(a, i) ==
    /\ a \in Accounts
    /\ OwnerOf(a) = i \/ SharedRole(a, i) \in {RoleAdmin, RoleOwner}

\* the debit of the internal transfer in flight has been applied
Debited ==
    /\ req.type = Internal
    /\ pc \in {"i_create", "done"} \/ (pc = "thrown" /\ thrownAt = "i_create")

\* C8: an internal transfer debits the source account only for a caller who owns
\* it or holds Admin or Owner on it, using the owned lookup when both apply; for
\* any other caller the transfer ends in NotFound with no balance changed.
C8_OnlyAuthorizedDebit ==
    /\ Debited =>
          /\ identifier = getUser(req.source)
          /\ fromAccount.id = req.fromAccountId
          /\ Authorized(req.fromAccountId, identifier)
          /\ fromAccount.via = IF OwnerOf(req.fromAccountId) = identifier
                               THEN "own" ELSE "shared"
    /\ ( /\ req.type = Internal
         /\ Ended
         /\ getUser(req.source) # NoUser
         /\ ~Authorized(req.fromAccountId, getUser(req.source))
         /\ err # "DbError" )
       => pc = "thrown" /\ err = "NotFound" /\ balance = before

C8_Witness ==
    /\ Debited
    /\ pc = "done"
    /\ fromAccount.via = "shared"
    /\ SharedRole(req.fromAccountId, identifier) = RoleAdmin
    /\ req.amount > 0

\* C9: a call that has returned has committed its transaction and a call that has
\* thrown has rolled it back.
C9_TransactionEnded ==
    /\ pc = "done" => t = "committed"
    /\ pc = "thrown" => t = "rolledback"

Signed(e) == IF e.op = "take" THEN 0 - e.amount ELSE e.amount

RECURSIVE LogSum(_, _, _)
LogSum(log, i, n) ==
    IF n = 0 THEN 0
    ELSE LogSum(log, i, n - 1) + (IF log[n].identifier = i THEN Signed(log[n]) ELSE 0)

Quiescent == \A p \in CashProcs : cpc[p] \notin {"read", "write"}

Raced == \E p \in CashProcs : cpc[p] = "done" /\ cstale[p]

\* C10 (as amended): with the flag off no interleaving of handleTakeCash and
\* handleGiveCash calls loses an update: whenever no call is in flight the stored
\* amount is the initial amount plus the sum of the signed amounts of the calls
\* that ran, also when one call wrote between the read and the write of another.
C10_NoLostUpdate ==
    ~useFrameworkIntegration /\ Quiescent =>
        \A i \in CashHolders :
            cashRow[i] = cash0[i] + LogSum(cashLog, i, Len(cashLog))

C10_Witness ==
    /\ ~useFrameworkIntegration
    /\ Quiescent
    /\ Raced
    /\ \A p \in CashProcs : cpc[p] = "done" /\ creq[p].amount > 0

\* C10 (as claimed): after two calls of which one wrote between the read and the
\* write of the other, the stored amount differs from the initial amount plus the
\* sum of the signed amounts.
C10_AsClaimed ==
    ~useFrameworkIntegration /\ Quiescent /\ Raced =>
        \E i \in CashHolders :
            cashRow[i] # cash0[i] + LogSum(cashLog, i, Len(cashLog))

=============================================================================
